---- MODULE Spec2Model ----
(***************************************************************************)
(* Quota server: per-user quota ledgers kept on several MinIO sites.       *)
(*                                                                         *)
(* Two builds of the program are modelled, selected by `variant`:          *)
(*   "multi"  : the multi-site engine (updateQuota / checkQuota /          *)
(*              refreshQuota with ETag-conditional PUTs and retries);      *)
(*   "single" : the single-site HTTP handlers of quota-handler.go, which   *)
(*              serialise per user with the in-process lock table of       *)
(*              locker.go and PUT unconditionally.                         *)
(*                                                                         *)
(* An object path "2006-Jan-02/user/name" is modelled by the sequence of   *)
(* its '/'-separated tokens; the date tokens "d1" < "d2" < "d3" stand for  *)
(* three consecutive calendar days and every other first token fails       *)
(* time.Parse.                                                             *)
(***************************************************************************)
EXTENDS Integers, Sequences, FiniteSets, TLC

\* ---------------------------------------------------------------- bounds
\* MAX_OBJECT_LIMIT_PER_USER of the running process (must be > 0).
maxLimit == 2
\* Number of multi-site calls (Update / Check / Refresh) started in a run.
MaxCalls == 2

\* ------------------------------------------------------- program constants
retryAttempts == 3

\* ------------------------------------------------------------- universes
Sites == {1, 2}
Calls == {"c1", "c2"}
Users == <<"u1", "u2">>
UserSet == {Users[i] : i \in 1..Len(Users)}

\* getCurrentDateInUTC(): the day the run takes place in.
getCurrentDateInUTC == 2

\* Object paths, as token sequences.
a3 == <<"d3", "u1", "a">>
b3 == <<"d3", "u1", "b">>
c3 == <<"d3", "u1", "c">>
a2 == <<"d2", "u1", "a">>
a1 == <<"d1", "u1", "a">>
ax == <<"xx", "u1", "a">>
sh == <<"d3", "u1">>
z3 == <<"d3", "u2", "z">>
z1 == <<"d1", "u2", "z">>
z2 == <<"d2", "u2", "z">>

\* Object keys carried by the update notifications of a run.
NotifPaths == {a3, b3, a1, a2, sh}

\* time.Parse(dateFormat, date): the day number, or -1 for a parse error.
ParseDate(tok) ==
  CASE tok = "d0" -> 0
    [] tok = "d1" -> 1
    [] tok = "d2" -> 2
    [] tok = "d3" -> 3
    [] OTHER -> -1

\* The test of one entry in UserQuota.Refresh: TRUE when the entry is dropped.
StaleMut(object) == Len(object) < 3 \/ ParseDate(object[1]) = -1
IsStale(object) ==
  \/ Len(object) < 3
  \/ ParseDate(object[1]) = -1
  \/ getCurrentDateInUTC > ParseDate(object[1])

\* UserQuota.Refresh: the surviving entries and the `updated` flag.
RefreshObjects(objects) == {o \in objects : ~IsStale(o)}
RefreshAlwaysUpdated(quota) ==
  [quota |-> [Objects |-> RefreshObjects(quota.Objects), MaxLimit |-> quota.MaxLimit],
   updated |-> TRUE]
Refresh(quota) ==
  [quota |-> [Objects |-> RefreshObjects(quota.Objects), MaxLimit |-> quota.MaxLimit],
   updated |-> RefreshObjects(quota.Objects) # quota.Objects]

\* NewUserQuota()
NewUserQuota == [Objects |-> {}, MaxLimit |-> maxLimit]

\* ------------------------------------------------------------ site store
\* One object "<user>.quota" of the quota bucket of a site: the decoded
\* content and the ETag the site reports for it; etag = 0 stands for "no such
\* key" (and for the empty ETag string of a request).
NoObject == [Objects |-> {}, MaxLimit |-> 0, etag |-> 0]

\* Outcomes of one GetObject+Stat on an object in state cur; f tells whether
\* the I/O may fail.
ReadOutcomes(cur, f) ==
  (IF cur.etag = 0 THEN {"NoSuchKey"} ELSE {"ok"}) \cup
  (IF f THEN (IF cur.etag = 0 THEN {"error"} ELSE {"error", "noetag"}) ELSE {})

\* PutObject with opts.SetMatchETag(etag): the precondition the site evaluates.
PutAlways(cur, etag) == TRUE
ETagMatches(cur, etag) == cur.etag = etag

\* UserQuota.Write: the JSON document {"objects":{<path>:{},...},"maxLimit":n};
\* the keys of "objects" in the encoder's order, "maxLimit" left out when it
\* is 0 (omitempty).
RECURSIVE EncodeKeys(_)
EncodeKeys(objects) ==
  IF objects = {} THEN <<>>
  ELSE LET o == CHOOSE x \in objects : TRUE
       IN <<o>> \o EncodeKeys(objects \ {o})
WriteNoLimit(quota) == [objects |-> EncodeKeys(quota.Objects), maxLimit |-> <<>>]
Write(quota) ==
  [objects |-> EncodeKeys(quota.Objects),
   maxLimit |-> IF quota.MaxLimit = 0 THEN <<>> ELSE <<quota.MaxLimit>>]

\* parseUserQuota: the UserQuota decoded from a document; a field the
\* document does not have keeps its zero value.
parseUserQuota(doc) ==
  [Objects |-> {doc.objects[i] : i \in 1..Len(doc.objects)},
   MaxLimit |-> IF doc.maxLimit = <<>> THEN 0 ELSE doc.maxLimit[1]]

\* The object after a PUT of quota that was accepted: the content is what
\* parseUserQuota makes of the document that Write produced.
PutObject(cur, quota) ==
  [Objects |-> parseUserQuota(Write(quota)).Objects,
   MaxLimit |-> parseUserQuota(Write(quota)).MaxLimit,
   etag |-> cur.etag + 1]

\* ------------------------------------------------------------------ errors
\* "nil", errMaxLimitExceeded and the fmt.Errorf failures of each I/O step.
Errs == {"nil", "exceeded", "read", "etag", "conflict", "put", "get", "list"}

\* ---------------------------------------------- one attempt of an update
\* len(userQuota.Objects) > userQuota.MaxLimit
ExceedsOff(quota) == Cardinality(quota.Objects) > quota.MaxLimit + 1
Exceeds(quota) == Cardinality(quota.Objects) > quota.MaxLimit

\* if _, ok := userQuota.Objects[path]; ok { return nil }
AlreadyAppendedNever(quota, path) == FALSE
AlreadyAppended(quota, path) == path \in quota.Objects

AddPath(quota, path) ==
  [Objects |-> quota.Objects \cup {path}, MaxLimit |-> quota.MaxLimit]

\* updateLatestUserQuota up to (not including) the PUT: the error it returns
\* early, or the quota and ETag it is about to PUT (put = TRUE).
UpdateAttempt(rd, cur, path) ==
  LET stored == [Objects |-> cur.Objects, MaxLimit |-> cur.MaxLimit]
      refreshed == Refresh(stored).quota
      fresh == AddPath(NewUserQuota, path)
      added == AddPath(refreshed, path)
      none == [Objects |-> {}, MaxLimit |-> 0]
  IN CASE rd = "error" -> [err |-> "read", put |-> FALSE, quota |-> none, etag |-> 0]
       [] rd = "noetag" -> [err |-> "etag", put |-> FALSE, quota |-> none, etag |-> 0]
       [] rd = "NoSuchKey" ->
            IF Exceeds(fresh)
            THEN [err |-> "exceeded", put |-> FALSE, quota |-> none, etag |-> 0]
            ELSE [err |-> "nil", put |-> TRUE, quota |-> fresh, etag |-> 0]
       [] OTHER ->
            IF AlreadyAppended(refreshed, path)
            THEN [err |-> "nil", put |-> FALSE, quota |-> none, etag |-> 0]
            ELSE IF Exceeds(added)
            THEN [err |-> "exceeded", put |-> FALSE, quota |-> none, etag |-> 0]
            ELSE [err |-> "nil", put |-> TRUE, quota |-> added, etag |-> cur.etag]

\* ------------------------------------------------------------------ state
VARIABLES
  variant,   \* which build runs: "multi" or "single"
  faults,    \* TRUE when the sites' I/O may fail during the run
  s3Clients, \* the sites configured at startup (MINIO_ENDPOINT_*)
  slots,     \* the request slots the deployment serves concurrently
  store,     \* store[s][u]: the quota object of user u at site s
  call,      \* call[c]: the multi-site call in slot c
  w,         \* w[c][s]: the errgroup goroutine of call c for site s
  ncalls,    \* requests started so far
  manifest,  \* single-site build: manifest[u], the quota object of user u
  locker,    \* single-site build: locker[u], the handler holding u's mutex
  hd,        \* single-site build: hd[h], the HTTP handler goroutine h
  data,      \* data[s]: the top-level prefixes of the data bucket of site s
  voicemails, \* single-site build: the top-level prefixes of the data bucket
  ctx        \* ctx[c]: the context.Context the caller passed with request c

multiVars == <<s3Clients, slots, store, call, w>>
singleVars == <<manifest, locker, hd>>
vars == <<variant, faults, s3Clients, slots, store, call, w, ncalls, manifest, locker, hd,
          data, voicemails, ctx>>

IdleCall == [kind |-> "none", user |-> "", path |-> <<>>, phase |-> "idle", ret |-> "nil"]
NoQuota == [Objects |-> {}, MaxLimit |-> 0]
IdleWorker ==
  [pc |-> "idle", attempts |-> 0, quota |-> NoQuota, etag |-> 0, err |-> "nil",
   rd |-> "", todo |-> <<>>]

\* Ledgers a site may hold when the run starts (written on earlier days).
InitObjects(u) ==
  IF u = "u1" THEN {{a3}, {a3, c3}, {a1, c3}} ELSE {{z1, z2}}
InitLedgers(u) ==
  {NoObject} \cup {[Objects |-> o, MaxLimit |-> maxLimit, etag |-> 1] : o \in InitObjects(u)}
\* The stores of a run: every configured site holds one of the ledgers above
\* for each of the given users, and nothing for anybody else.
InitStores(sites, users) ==
  {f \in [Sites -> [UserSet -> UNION {InitLedgers(u) : u \in UserSet}]] :
     \A s \in Sites, u \in UserSet :
       IF s \in sites /\ u \in users THEN f[s][u] \in InitLedgers(u) ELSE f[s][u] = NoObject}

Handlers == {"h1", "h2"}
NoManifest == [exists |-> FALSE, Objects |-> [o \in {} |-> 0], MaxLimit |-> 0]
IdleHandler ==
  [pc |-> "idle", kind |-> "none", user |-> "", path |-> <<>>,
   quota |-> [Objects |-> [o \in {} |-> 0], MaxLimit |-> 0], status |-> 0, todo |-> <<>>,
   rd |-> ""]

InitIdle ==
  /\ call = [c \in Calls |-> IdleCall]
  /\ w = [c \in Calls |-> [s \in Sites |-> IdleWorker]]
  /\ ncalls = 0
  /\ locker = [u \in UserSet |-> ""]
  /\ hd = [h \in Handlers |-> IdleHandler]

InitMultiIdle ==
  /\ InitIdle
  /\ manifest = [u \in UserSet |-> NoManifest]
  /\ voicemails = {}

\* Callers that never cancel a request, and callers that may.
NeverCancelled == [c \in Calls |-> "background"]
Cancellable == [c \in Calls |-> "live"]

\* The data bucket of a site whose expired partitions were purged already.
PurgedData == [s \in Sites |-> IF s \in s3Clients THEN {"d3"} ELSE {}]

\* Two sites, one request at a time.
InitFanout ==
  /\ ctx = NeverCancelled
  /\ faults = TRUE
  /\ variant = "multi"
  /\ s3Clients = {1, 2}
  /\ slots = {"c1"}
  /\ store \in {f \in InitStores({1, 2}, {"u1"}) : f[2]["u1"].Objects # {a3}}
  /\ data = PurgedData
  /\ InitMultiIdle

\* One site, two requests in flight; u2 has a ledger there.
InitConcurrent ==
  /\ ctx = NeverCancelled
  /\ faults = TRUE
  /\ variant = "multi"
  /\ s3Clients = {1}
  /\ slots = {"c1", "c2"}
  /\ store \in {f \in InitStores({1}, UserSet) :
                   f[1]["u2"] # NoObject /\ f[1]["u1"].Objects # {a3}}
  /\ data = PurgedData
  /\ InitMultiIdle

\* Two sites that never fail, two requests in flight, both sites starting from
\* the same ledger.
InitBoth ==
  /\ ctx = NeverCancelled
  /\ faults = FALSE
  /\ variant = "multi"
  /\ s3Clients = {1, 2}
  /\ slots = {"c1", "c2"}
  /\ store \in {f \in InitStores({1, 2}, {"u1"}) :
                   f[1] = f[2] /\ f[1]["u1"].Objects \in {{}, {a3}}}
  /\ data = PurgedData
  /\ InitMultiIdle

\* The single-site build: one s3Client, two handler goroutines.
InitManifests(u) ==
  {NoManifest} \cup
  {[exists |-> TRUE, Objects |-> [o \in os |-> 1], MaxLimit |-> maxLimit] : os \in InitObjects(u)}
InitSingle ==
  /\ ctx = NeverCancelled
  /\ faults = TRUE
  /\ variant = "single"
  /\ s3Clients = {}
  /\ slots = {}
  /\ store = [s \in Sites |-> [u \in UserSet |-> NoObject]]
  /\ manifest \in {f \in [UserSet -> UNION {InitManifests(u) : u \in UserSet}] :
                      /\ \A u \in UserSet : f[u] \in InitManifests(u)
                      /\ f["u2"].exists \/ ~f["u1"].exists}
  /\ data = [s \in Sites |-> {}]
  /\ voicemails = {"d1", "d2", "xx"}
  /\ InitIdle

\* Two sites whose data buckets hold partitions of past days, of today and of
\* a later day, and a prefix that is not a date; one request at a time.
InitPurge ==
  /\ ctx = NeverCancelled
  /\ faults = TRUE
  /\ variant = "multi"
  /\ s3Clients = {1, 2}
  /\ slots = {"c1"}
  /\ store = [s \in Sites |-> [u \in UserSet |-> NoObject]]
  /\ data = [s \in Sites |-> IF s = 1 THEN {"d0", "d1", "d2", "xx"} ELSE {"d1", "d3"}]
  /\ InitMultiIdle

\* One site whose ledger of u1 was written by an earlier run of the process
\* under another MAX_OBJECT_LIMIT_PER_USER (one more, or one less); the site
\* serves one request at a time.
ReconfiguredLedgers ==
  {[Objects |-> {a3, c3}, MaxLimit |-> maxLimit + 1, etag |-> 1],
   [Objects |-> {a3}, MaxLimit |-> maxLimit - 1, etag |-> 1]}
InitReconfigured ==
  /\ ctx = NeverCancelled
  /\ faults = TRUE
  /\ variant = "multi"
  /\ s3Clients = {1}
  /\ slots = {"c1"}
  /\ store \in {[s \in Sites |-> [u \in UserSet |->
                   IF s = 1 /\ u = "u1" THEN l ELSE NoObject]] : l \in ReconfiguredLedgers}
  /\ data = PurgedData
  /\ InitMultiIdle

\* One site, serving one request at a time, which its caller may cancel;
\* u1's ledger holds an expired entry and the data bucket a partition of a
\* past day.
InitCancellable ==
  /\ ctx = Cancellable
  /\ faults = TRUE
  /\ variant = "multi"
  /\ s3Clients = {1}
  /\ slots = {"c1"}
  /\ store = [s \in Sites |-> [u \in UserSet |->
                IF s = 1 /\ u = "u1"
                THEN [Objects |-> {a1, c3}, MaxLimit |-> maxLimit, etag |-> 1]
                ELSE NoObject]]
  /\ data = [s \in Sites |-> IF s = 1 THEN {"d1", "d3"} ELSE {}]
  /\ InitMultiIdle

Init ==
  \/ InitFanout \/ InitConcurrent \/ InitBoth \/ InitSingle \/ InitPurge
  \/ InitReconfigured \/ InitCancellable

\* ----------------------------------------------------------------- ctx
\* The context of a request: "background" when the caller never cancels,
\* else "live" until the caller cancels it or its deadline passes ("done").
\* Every request comes with a context of its own.
NewContext(cx) == IF cx = "background" THEN cx ELSE "live"

\* The caller cancels the context of a call that has not returned yet.
Cancel(c) ==
  /\ variant = "multi"
  /\ call[c].phase = "running"
  /\ ctx[c] = "live"
  /\ ctx' = [ctx EXCEPT ![c] = "done"]
  /\ UNCHANGED <<variant, faults, data, voicemails, multiVars, ncalls, singleVars>>

\* GetObject+Stat with ctx: with ctx done the call fails before any answer
\* of the site.
ReadWithContext(cx, cur, f) == IF cx = "done" THEN {"error"} ELSE ReadOutcomes(cur, f)

\* ----------------------------------------------------------- updateQuota
StartCall(c, kind, user, path, pc) ==
  /\ variant = "multi"
  /\ c \in slots
  /\ call[c].phase # "running"
  /\ ncalls < MaxCalls
  /\ ncalls' = ncalls + 1
  /\ call' = [call EXCEPT ![c] =
                [kind |-> kind, user |-> user, path |-> path,
                 phase |-> "running", ret |-> "nil"]]
  /\ w' = [w EXCEPT ![c] =
             [s \in Sites |-> IF s \in s3Clients
                              THEN [IdleWorker EXCEPT !.pc = pc, !.attempts = 1]
                              ELSE IdleWorker]]
  /\ ctx' = [ctx EXCEPT ![c] = NewContext(@)]
  /\ UNCHANGED <<variant, faults, data, voicemails, s3Clients, slots, store, singleVars>>

Running(c, kind, s, pc) ==
  /\ variant = "multi"
  /\ call[c].kind = kind /\ call[c].phase = "running"
  /\ s \in s3Clients
  /\ w[c][s].pc = pc

\* Ingestion of the multi-site build (design section 4.4): what becomes of a
\* notification whose unescaped object key is path.
Ingest(path) ==
  IF path = <<>> THEN "noop"
  ELSE IF Len(path) < 3 \/ ParseDate(path[1]) = -1 THEN "invalid"
  ELSE IF ParseDate(path[1]) <= getCurrentDateInUTC THEN "expired"
  ELSE "update"

\* A notification that passes ingestion is handed to updateQuota, which starts
\* one goroutine per site.
StartUpdate(c, path) ==
  /\ Ingest(path) = "update"
  /\ StartCall(c, "update", path[2], path, "read")

\* A notification that ingestion answers itself.
IgnoreNotification(c, path) ==
  /\ variant = "multi"
  /\ c \in slots
  /\ call[c].phase # "running"
  /\ ncalls < MaxCalls
  /\ Ingest(path) # "update"
  /\ ncalls' = ncalls + 1
  /\ call' = [call EXCEPT ![c] =
                [kind |-> "ignored", user |-> "", path |-> path, phase |-> "returned",
                 ret |-> IF Ingest(path) = "invalid" THEN "invalid" ELSE "nil"]]
  /\ w' = [w EXCEPT ![c] = [s \in Sites |-> IdleWorker]]
  /\ ctx' = [ctx EXCEPT ![c] = NewContext(@)]
  /\ UNCHANGED <<variant, faults, data, voicemails, s3Clients, slots, store, singleVars>>

\* The retry loop of updateQuota after an attempt returned err.
AfterAttemptOneMore(wk, err) ==
  IF err = "nil" \/ wk.attempts > retryAttempts
  THEN [IdleWorker EXCEPT !.pc = "done", !.attempts = wk.attempts, !.err = err]
  ELSE [IdleWorker EXCEPT !.pc = "read", !.attempts = wk.attempts + 1, !.err = err]
AfterAttempt(wk, err) ==
  IF err = "nil" \/ wk.attempts >= retryAttempts
  THEN [IdleWorker EXCEPT !.pc = "done", !.attempts = wk.attempts, !.err = err]
  ELSE [IdleWorker EXCEPT !.pc = "read", !.attempts = wk.attempts + 1, !.err = err]

\* updateLatestUserQuota: readUserQuota, Refresh, the presence and limit tests.
UpdateRead(c, s) ==
  /\ Running(c, "update", s, "read")
  /\ \E rd \in ReadWithContext(ctx[c], store[s][call[c].user], faults) :
       LET a == UpdateAttempt(rd, store[s][call[c].user], call[c].path)
       IN w' = [w EXCEPT ![c][s] =
                  IF a.put
                  THEN [@ EXCEPT !.pc = "write", !.quota = a.quota, !.etag = a.etag]
                  ELSE AfterAttempt(@, a.err)]
  /\ UNCHANGED <<variant, faults, ctx, data, voicemails, s3Clients, slots, store, call, ncalls, singleVars>>

\* updateLatestUserQuota: updateUserQuota, the conditional PUT.
UpdateWrite(c, s) ==
  /\ Running(c, "update", s, "write")
  /\ LET u == call[c].user
         cur == store[s][u]
     IN \/ /\ ctx[c] # "done" /\ ETagMatches(cur, w[c][s].etag)
           /\ store' = [store EXCEPT ![s][u] = PutObject(cur, w[c][s].quota)]
           /\ w' = [w EXCEPT ![c][s] = AfterAttempt(@, "nil")]
        \/ /\ ctx[c] # "done" /\ ~ETagMatches(cur, w[c][s].etag)
           /\ w' = [w EXCEPT ![c][s] = AfterAttempt(@, "conflict")]
           /\ UNCHANGED store
        \/ /\ faults \/ ctx[c] = "done"
           /\ w' = [w EXCEPT ![c][s] = AfterAttempt(@, "put")]
           /\ UNCHANGED store
  /\ UNCHANGED <<variant, faults, ctx, data, voicemails, s3Clients, slots, call, ncalls, singleVars>>

\* errgroup WaitErr: nil when no goroutine failed, else the error of one of
\* the goroutines that failed.
WaitErrFirstSite(errs) == {errs[CHOOSE s \in DOMAIN errs : \A t \in DOMAIN errs : s <= t]}
WaitErr(errs) ==
  IF \A s \in DOMAIN errs : errs[s] = "nil" THEN {"nil"}
  ELSE {errs[s] : s \in {t \in DOMAIN errs : errs[t] # "nil"}}

ErrsOf(c) == [s \in s3Clients |-> w[c][s].err]
AllDone(c) == \A s \in s3Clients : w[c][s].pc = "done"

UpdateReturn(c) ==
  /\ variant = "multi"
  /\ call[c].kind = "update" /\ call[c].phase = "running"
  /\ AllDone(c)
  /\ \E r \in WaitErr(ErrsOf(c)) :
       call' = [call EXCEPT ![c].phase = "returned", ![c].ret = r]
  /\ UNCHANGED <<variant, faults, ctx, data, voicemails, s3Clients, slots, store, w, ncalls, singleVars>>

\* ------------------------------------------------------------ checkQuota
StartCheck(c, user) == StartCall(c, "check", user, <<>>, "read")

\* len(userQuota.Objects) >= userQuota.MaxLimit
AtLimitOff(quota) == Cardinality(quota.Objects) > quota.MaxLimit
AtLimit(quota) == Cardinality(quota.Objects) >= quota.MaxLimit

\* The goroutine of checkQuota for one site, given the outcome of its read.
CheckSiteResult(rd, cur) ==
  CASE rd = "error" -> "nil"
    [] rd = "NoSuchKey" -> "get"
    [] OTHER ->
         IF AtLimit(Refresh([Objects |-> cur.Objects, MaxLimit |-> cur.MaxLimit]).quota)
         THEN "exceeded"
         ELSE "nil"

CheckSitePersists(c, s) ==
  /\ Running(c, "check", s, "read")
  /\ LET u == call[c].user
         cur == store[s][u]
         rd == IF cur.etag = 0 THEN "NoSuchKey" ELSE "ok"
     IN /\ w' = [w EXCEPT ![c][s] =
                   [IdleWorker EXCEPT !.pc = "done", !.attempts = 1, !.rd = rd,
                                      !.err = CheckSiteResult(rd, cur)]]
        /\ store' = [store EXCEPT ![s][u] =
                       IF cur.etag = 0 THEN cur
                       ELSE PutObject(cur, Refresh([Objects |-> cur.Objects,
                                                    MaxLimit |-> cur.MaxLimit]).quota)]
  /\ UNCHANGED <<variant, faults, ctx, data, voicemails, s3Clients, slots, call, ncalls,
                 singleVars>>
CheckSite(c, s) ==
  /\ Running(c, "check", s, "read")
  /\ \E rd \in ReadWithContext(ctx[c], store[s][call[c].user], faults) :
       w' = [w EXCEPT ![c][s] =
               [IdleWorker EXCEPT !.pc = "done", !.attempts = 1, !.rd = rd,
                                  !.err = CheckSiteResult(rd, store[s][call[c].user])]]
  /\ UNCHANGED <<variant, faults, ctx, data, voicemails, s3Clients, slots, store, call, ncalls, singleVars>>

\* The loop over g.Wait() in checkQuota: errMaxLimitExceeded wins, else the
\* error of the last failed site in index order, else nil.
RECURSIVE LastErr(_, _)
LastErr(errs, n) ==
  IF n = 0 THEN "nil"
  ELSE IF n \in DOMAIN errs /\ errs[n] # "nil" THEN errs[n]
  ELSE LastErr(errs, n - 1)

MaxSite == CHOOSE s \in Sites : \A t \in Sites : t <= s

CheckFirstErr(errs) ==
  IF \A s \in DOMAIN errs : errs[s] = "nil" THEN "nil"
  ELSE LET f == CHOOSE s \in DOMAIN errs :
                  errs[s] # "nil" /\ \A t \in DOMAIN errs : errs[t] # "nil" => s <= t
       IN errs[f]
CheckAggregate(errs) ==
  IF \E s \in DOMAIN errs : errs[s] = "exceeded" THEN "exceeded"
  ELSE LastErr(errs, MaxSite)

CheckReturn(c) ==
  /\ variant = "multi"
  /\ call[c].kind = "check" /\ call[c].phase = "running"
  /\ AllDone(c)
  /\ call' = [call EXCEPT ![c].phase = "returned", ![c].ret = CheckAggregate(ErrsOf(c))]
  /\ UNCHANGED <<variant, faults, ctx, data, voicemails, s3Clients, slots, store, w, ncalls, singleVars>>

\* ---------------------------------------------------------- refreshQuota
StartRefresh(c) == StartCall(c, "refresh", "", <<>>, "list")

\* ListObjects on the quota bucket: the users that have a ledger, in key order.
RECURSIVE Listing(_, _)
Listing(st, i) ==
  IF i > Len(Users) THEN <<>>
  ELSE (IF st[Users[i]].etag # 0 THEN <<Users[i]>> ELSE <<>>) \o Listing(st, i + 1)

\* The sweep moves on to the next listed user, or ends with a nil result.
NextUser(wk) ==
  IF Len(wk.todo) <= 1
  THEN [IdleWorker EXCEPT !.pc = "done", !.attempts = wk.attempts]
  ELSE [IdleWorker EXCEPT !.pc = "read", !.attempts = 1, !.todo = Tail(wk.todo)]

\* The retry loop around refreshUserQuota after an attempt returned an error.
AfterRefreshFailure(wk) ==
  IF wk.attempts >= retryAttempts
  THEN NextUser(wk)
  ELSE [IdleWorker EXCEPT !.pc = "read", !.attempts = wk.attempts + 1, !.todo = wk.todo]

RefreshList(c, s) ==
  /\ Running(c, "refresh", s, "list")
  /\ \/ /\ faults \/ ctx[c] = "done"
        /\ w' = [w EXCEPT ![c][s] =
                   [IdleWorker EXCEPT !.pc = "done", !.attempts = 1, !.err = "list"]]
     \/ /\ ctx[c] # "done"
        /\ w' = [w EXCEPT ![c][s] =
                IF Listing(store[s], 1) = <<>>
                   THEN [IdleWorker EXCEPT !.pc = "done", !.attempts = 1]
                   ELSE [IdleWorker EXCEPT !.pc = "read", !.attempts = 1,
                                           !.todo = Listing(store[s], 1)]]
  /\ UNCHANGED <<variant, faults, ctx, data, voicemails, s3Clients, slots, store, call, ncalls, singleVars>>

\* refreshUserQuota up to the PUT: TRUE when a PUT of the refreshed quota follows.
RefreshWritesAlways(quota) == TRUE
RefreshWrites(quota) == Refresh(quota).updated

\* refreshUserQuota: readUserQuota and Refresh.
RefreshRead(c, s) ==
  /\ Running(c, "refresh", s, "read")
  /\ LET cur == store[s][Head(w[c][s].todo)]
         stored == [Objects |-> cur.Objects, MaxLimit |-> cur.MaxLimit]
     IN \E rd \in ReadWithContext(ctx[c], cur, faults) :
          w' = [w EXCEPT ![c][s] =
                  [(IF rd # "ok" THEN AfterRefreshFailure(@)
                    ELSE IF RefreshWrites(stored)
                    THEN [@ EXCEPT !.pc = "write", !.quota = Refresh(stored).quota,
                                   !.etag = cur.etag]
                    ELSE NextUser(@)) EXCEPT !.rd = rd]]
  /\ UNCHANGED <<variant, faults, ctx, data, voicemails, s3Clients, slots, store, call, ncalls, singleVars>>

\* refreshUserQuota: updateUserQuota, the conditional PUT.
RefreshWrite(c, s) ==
  /\ Running(c, "refresh", s, "write")
  /\ LET u == Head(w[c][s].todo)
         cur == store[s][u]
     IN \/ /\ ctx[c] # "done" /\ ETagMatches(cur, w[c][s].etag)
           /\ store' = [store EXCEPT ![s][u] = PutObject(cur, w[c][s].quota)]
           /\ w' = [w EXCEPT ![c][s] = [NextUser(@) EXCEPT !.rd = "put"]]
        \/ /\ ctx[c] # "done" /\ ~ETagMatches(cur, w[c][s].etag)
           /\ w' = [w EXCEPT ![c][s] = [AfterRefreshFailure(@) EXCEPT !.rd = "conflict"]]
           /\ UNCHANGED store
        \/ /\ (faults /\ ETagMatches(cur, w[c][s].etag)) \/ ctx[c] = "done"
           /\ w' = [w EXCEPT ![c][s] = [AfterRefreshFailure(@) EXCEPT !.rd = "putfail"]]
           /\ UNCHANGED store
  /\ UNCHANGED <<variant, faults, ctx, data, voicemails, s3Clients, slots, call, ncalls, singleVars>>

RefreshReturn(c) ==
  /\ variant = "multi"
  /\ call[c].kind = "refresh" /\ call[c].phase = "running"
  /\ AllDone(c)
  /\ \E r \in WaitErr(ErrsOf(c)) :
       call' = [call EXCEPT ![c].phase = "returned", ![c].ret = r]
  /\ UNCHANGED <<variant, faults, ctx, data, voicemails, s3Clients, slots, store, w, ncalls, singleVars>>

\* ------------------------------------------------------------------ purge
StartPurge(c) == StartCall(c, "purge", "", <<>>, "plist")

\* The keys ListObjects yields for a bucket, "/" trimmed, in key order.
Partitions == <<"d0", "d1", "d2", "d3", "xx">>
RECURSIVE ListingData(_, _)
ListingData(bucket, i) ==
  IF i > Len(Partitions) THEN <<>>
  ELSE (IF Partitions[i] \in bucket THEN <<Partitions[i]>> ELSE <<>>)
         \o ListingData(bucket, i + 1)

\* getCurrentDateInUTC().After(t.UTC()) for a key that parsed as a date.
PurgeExpiredToday(key) == getCurrentDateInUTC >= ParseDate(key)
PurgeExpired(key) == getCurrentDateInUTC > ParseDate(key)

\* `continue`: the sweep goes on with the next listed key, or returns nil;
\* outcome tells what became of the key just examined.
NextKey(wk, outcome) ==
  IF Len(wk.todo) <= 1
  THEN [IdleWorker EXCEPT !.pc = "done", !.attempts = wk.attempts, !.rd = outcome]
  ELSE [IdleWorker EXCEPT !.pc = "psweep", !.attempts = wk.attempts, !.rd = outcome,
                          !.todo = Tail(wk.todo)]

\* RemoveObject returned an error: logged, and the sweep continues.
AfterDeleteFailureAborts(wk) ==
  [IdleWorker EXCEPT !.pc = "done", !.attempts = wk.attempts, !.rd = "delfail",
                     !.err = "delete"]
AfterDeleteFailure(wk) == NextKey(wk, "delfail")

\* object.Err != nil: the goroutine returns "unable to list objects".
ListFailure(wk) ==
  [IdleWorker EXCEPT !.pc = "done", !.attempts = wk.attempts, !.rd = "listfail",
                     !.err = "list"]

\* purge: ListObjects on the data bucket of the site.
PurgeList(c, s) ==
  /\ Running(c, "purge", s, "plist")
  /\ \/ /\ faults
        /\ w' = [w EXCEPT ![c][s] = ListFailure(@)]
     \/ w' = [w EXCEPT ![c][s] =
                IF ListingData(data[s], 1) = <<>>
                THEN [IdleWorker EXCEPT !.pc = "done", !.attempts = 1]
                ELSE [IdleWorker EXCEPT !.pc = "psweep", !.attempts = 1,
                                        !.todo = ListingData(data[s], 1)]]
  /\ UNCHANGED <<variant, faults, ctx, data, voicemails, s3Clients, slots, store, call, ncalls,
                 singleVars>>

\* purge: one iteration of the loop over the listed keys.
PurgeStep(c, s) ==
  /\ Running(c, "purge", s, "psweep")
  /\ LET key == Head(w[c][s].todo)
     IN \/ /\ faults
           /\ w' = [w EXCEPT ![c][s] = ListFailure(@)]
           /\ UNCHANGED data
        \/ /\ ParseDate(key) = -1
           /\ w' = [w EXCEPT ![c][s] = NextKey(@, "skipped")]
           /\ UNCHANGED data
        \/ /\ ParseDate(key) # -1 /\ ~PurgeExpired(key)
           /\ w' = [w EXCEPT ![c][s] = NextKey(@, "kept")]
           /\ UNCHANGED data
        \/ /\ ParseDate(key) # -1 /\ PurgeExpired(key)
           /\ \/ /\ data' = [data EXCEPT ![s] = @ \ {key}]
                 /\ w' = [w EXCEPT ![c][s] = NextKey(@, "deleted")]
              \/ /\ faults
                 /\ w' = [w EXCEPT ![c][s] = AfterDeleteFailure(@)]
                 /\ UNCHANGED data
  /\ UNCHANGED <<variant, faults, ctx, voicemails, s3Clients, slots, store, call, ncalls,
                 singleVars>>

PurgeReturn(c) ==
  /\ variant = "multi"
  /\ call[c].kind = "purge" /\ call[c].phase = "running"
  /\ AllDone(c)
  /\ \E r \in WaitErr(ErrsOf(c)) :
       call' = [call EXCEPT ![c].phase = "returned", ![c].ret = r]
  /\ UNCHANGED <<variant, faults, ctx, data, voicemails, s3Clients, slots, store, w, ncalls,
                 singleVars>>

\* ------------------------------------------------ single-site handlers
\* A handler goroutine takes a request.
HStart(h, kind, user, path, pc, status, todo) ==
  /\ variant = "single"
  /\ hd[h].pc \in {"idle", "done"}
  /\ ncalls < MaxCalls
  /\ ncalls' = ncalls + 1
  /\ hd' = [hd EXCEPT ![h] =
              [IdleHandler EXCEPT !.pc = pc, !.kind = kind, !.user = user, !.path = path,
                                  !.status = status, !.todo = todo]]
  /\ UNCHANGED <<variant, faults, ctx, data, voicemails, multiVars, manifest, locker>>

\* The body of a notification once decoded: its Records; a record has an "s3"
\* object or not (s3), and in it bucket.name and object.key ("" and <<>> when
\* missing or empty). An object key is the sequence of its segments and of what
\* separates them: "/", the escape "%2F" of "/", or "%zz", not a valid escape.
Record(bucket, key) == [s3 |-> TRUE, bucket |-> bucket, key |-> key]
NoS3Record == [s3 |-> FALSE, bucket |-> "", key |-> <<>>]
RECURSIVE Join(_)
Join(path) ==
  IF Len(path) <= 1 THEN path ELSE <<Head(path), "/">> \o Join(Tail(path))
Notifications ==
  {<<Record("voicemails", Join(p))>> : p \in NotifPaths} \cup
  { <<Record("voicemails", <<"d3", "%2F", "u1", "%2F", "b">>)>>,
    <<Record("voicemails", <<"d3", "/", "u1", "/", "%zz">>)>>,
    <<Record("", Join(a3))>>,
    <<Record("voicemails", <<>>)>>,
    <<Record("", Join(a3)), Record("voicemails", Join(b3))>>,
    <<Record("voicemails", Join(a3)), Record("", <<>>)>>,
    <<Record("voicemails", Join(sh)), Record("voicemails", Join(b3))>>,
    <<NoS3Record>>,
    <<>> }

\* url.PathUnescape(object)
PathUnescape(key) ==
  IF \E i \in DOMAIN key : key[i] = "%zz"
  THEN [ok |-> FALSE, path |-> <<>>]
  ELSE [ok |-> TRUE, path |-> [i \in DOMAIN key |-> IF key[i] = "%2F" THEN "/" ELSE key[i]]]

\* strings.Split(path, "/") (every segment of a key of the model is one item).
RECURSIVE Split(_)
Split(str) ==
  IF str = <<>> THEN <<"">>
  ELSE IF Head(str) = "/" THEN <<"">> \o Split(Tail(str))
  ELSE IF Tail(str) = <<>> THEN <<Head(str)>>
  ELSE <<Head(str)>> \o Split(Tail(Tail(str)))

\* updateQuotaHandler before lock(user): Records[0], its "s3" object, the
\* bucket and key checks, PathUnescape and the count of the tokens.
Ignored(status) == [result |-> IF status = 200 THEN "noop" ELSE "invalid",
                    status |-> status, path |-> <<>>]
HandlerIngestLax(body) ==
  IF Len(body) = 0 THEN Ignored(400)
  ELSE IF ~body[1].s3 THEN Ignored(400)
  ELSE IF ~PathUnescape(body[1].key).ok THEN Ignored(400)
  ELSE IF Len(Split(PathUnescape(body[1].key).path)) < 3
  THEN [Ignored(400) EXCEPT !.path = Split(PathUnescape(body[1].key).path)]
  ELSE [result |-> "update", status |-> 0, path |-> Split(PathUnescape(body[1].key).path)]
HandlerIngest(body) ==
  IF Len(body) = 0 THEN Ignored(400)
  ELSE IF ~body[1].s3 THEN Ignored(400)
  ELSE IF body[1].bucket = "" \/ body[1].key = <<>> THEN Ignored(200)
  ELSE IF ~PathUnescape(body[1].key).ok THEN Ignored(400)
  ELSE IF Len(Split(PathUnescape(body[1].key).path)) < 3
  THEN [Ignored(400) EXCEPT !.path = Split(PathUnescape(body[1].key).path)]
  ELSE [result |-> "update", status |-> 0, path |-> Split(PathUnescape(body[1].key).path)]

\* What the handler makes of each body of Notifications.
Ingested == [body \in Notifications |-> HandlerIngest(body)]

HNotify(h, body) ==
  /\ variant = "single" /\ hd[h].pc \in {"idle", "done"} /\ ncalls < MaxCalls
  /\ LET r == Ingested[body]
     IN IF r.result = "update"
        THEN HStart(h, "update", r.path[2], r.path, "lock", 0, <<>>)
        ELSE HStart(h, "update", "", r.path, "done", r.status, <<>>)

HStartCheck(h, user) == HStart(h, "check", user, <<>>, "lock", 0, <<>>)

\* lock(user): getLock(user).Lock()
LockFree(holder) == TRUE
CanLock(holder) == holder = ""

HLock(h) ==
  /\ variant = "single"
  /\ hd[h].pc = "lock"
  /\ CanLock(locker[hd[h].user])
  /\ locker' = [locker EXCEPT ![hd[h].user] = h]
  /\ hd' = [hd EXCEPT ![h].pc = "read"]
  /\ UNCHANGED <<variant, faults, ctx, data, voicemails, multiVars, ncalls, manifest>>

\* Outcomes of readUserQuota in the single-site build.
ReadOutcomesSingle(cur, f) ==
  (IF cur.exists THEN {"ok"} ELSE {"NoSuchKey"}) \cup (IF f THEN {"error"} ELSE {})

\* UserQuota.Refresh of quota.go (Objects maps a path to a counter).
RefreshCounts(quota) ==
  [quota |-> [Objects |-> [o \in RefreshObjects(DOMAIN quota.Objects) |-> quota.Objects[o]],
              MaxLimit |-> quota.MaxLimit],
   updated |-> RefreshObjects(DOMAIN quota.Objects) # DOMAIN quota.Objects]

\* userQuota.Objects[path]++ / userQuota.Objects[path] = 1
CountPath(quota, path) ==
  [Objects |-> [o \in DOMAIN quota.Objects \cup {path} |->
                  IF o = path
                  THEN (IF o \in DOMAIN quota.Objects THEN quota.Objects[o] + 1 ELSE 1)
                  ELSE quota.Objects[o]],
   MaxLimit |-> quota.MaxLimit]

\* len(userQuota.Objects) >= userQuota.MaxLimit
HandlerExceeds(quota) == Cardinality(DOMAIN quota.Objects) >= quota.MaxLimit

\* updateQuotaHandler between readUserQuota and updateUserQuota.
HandlerAttempt(rd, cur, path) ==
  LET stored == [Objects |-> cur.Objects, MaxLimit |-> cur.MaxLimit]
      new == [Objects |-> [o \in {} |-> 0], MaxLimit |-> maxLimit]
      quota == IF rd = "NoSuchKey" THEN CountPath(new, path)
               ELSE CountPath(RefreshCounts(stored).quota, path)
  IN IF rd = "error" THEN [status |-> 400, put |-> FALSE, quota |-> IdleHandler.quota]
     ELSE IF HandlerExceeds(quota)
     THEN [status |-> 403, put |-> FALSE, quota |-> IdleHandler.quota]
     ELSE [status |-> 0, put |-> TRUE, quota |-> quota]

\* The handler returns: the response status is final and unlock(user) runs.
HDone(hr, status) == [hr EXCEPT !.pc = "done", !.status = status, !.quota = IdleHandler.quota,
                                !.todo = <<>>]

HUpdateRead(h) ==
  /\ variant = "single"
  /\ hd[h].pc = "read" /\ hd[h].kind = "update"
  /\ \E rd \in ReadOutcomesSingle(manifest[hd[h].user], faults) :
       LET a == HandlerAttempt(rd, manifest[hd[h].user], hd[h].path)
       IN IF a.put
          THEN /\ hd' = [hd EXCEPT ![h].pc = "write", ![h].quota = a.quota]
               /\ UNCHANGED locker
          ELSE /\ hd' = [hd EXCEPT ![h] = HDone(@, a.status)]
               /\ locker' = [locker EXCEPT ![hd[h].user] = ""]
  /\ UNCHANGED <<variant, faults, ctx, data, voicemails, multiVars, ncalls, manifest>>

\* updateUserQuota of quota.go: an unconditional PUT.
PutManifest(quota) == [exists |-> TRUE, Objects |-> quota.Objects, MaxLimit |-> quota.MaxLimit]

HUpdateWrite(h) ==
  /\ variant = "single"
  /\ hd[h].pc = "write" /\ hd[h].kind = "update"
  /\ \/ /\ manifest' = [manifest EXCEPT ![hd[h].user] = PutManifest(hd[h].quota)]
        /\ hd' = [hd EXCEPT ![h] = HDone(@, 200)]
     \/ /\ faults
        /\ hd' = [hd EXCEPT ![h] = HDone(@, 400)]
        /\ UNCHANGED manifest
  /\ locker' = [locker EXCEPT ![hd[h].user] = ""]
  /\ UNCHANGED <<variant, faults, ctx, data, voicemails, multiVars, ncalls>>

\* quotaCheckHandler after lock(user).
HandlerCheckStatus(rd, cur) ==
  CASE rd = "error" -> 200
    [] rd = "NoSuchKey" -> 500
    [] OTHER ->
         IF HandlerExceeds(RefreshCounts([Objects |-> cur.Objects,
                                          MaxLimit |-> cur.MaxLimit]).quota)
         THEN 403
         ELSE 200

HCheck(h) ==
  /\ variant = "single"
  /\ hd[h].pc = "read" /\ hd[h].kind = "check"
  /\ \E rd \in ReadOutcomesSingle(manifest[hd[h].user], faults) :
       hd' = [hd EXCEPT ![h] = HDone(@, HandlerCheckStatus(rd, manifest[hd[h].user]))]
  /\ locker' = [locker EXCEPT ![hd[h].user] = ""]
  /\ UNCHANGED <<variant, faults, ctx, data, voicemails, multiVars, ncalls, manifest>>

\* quotaRefreshHandler: ListObjects, then refreshUserQuota for each listed user.
RECURSIVE ListingSingle(_, _)
ListingSingle(m, i) ==
  IF i > Len(Users) THEN <<>>
  ELSE (IF m[Users[i]].exists THEN <<Users[i]>> ELSE <<>>) \o ListingSingle(m, i + 1)

HStartRefresh(h) ==
  \/ faults /\ HStart(h, "refresh", "", <<>>, "done", 500, <<>>)
  \/ /\ ListingSingle(manifest, 1) = <<>>
     /\ HStart(h, "refresh", "", <<>>, "done", 200, <<>>)
  \/ /\ ListingSingle(manifest, 1) # <<>>
     /\ HStart(h, "refresh", Head(ListingSingle(manifest, 1)), <<>>, "lock", 0,
               ListingSingle(manifest, 1))

\* refreshUserQuota returned nil: the loop goes on with the next listed user.
HNextUser(hr) ==
  IF Len(hr.todo) <= 1 THEN HDone(hr, 200)
  ELSE [hr EXCEPT !.pc = "lock", !.user = hr.todo[2], !.todo = Tail(hr.todo),
                  !.quota = IdleHandler.quota]

HRefreshRead(h) ==
  /\ variant = "single"
  /\ hd[h].pc = "read" /\ hd[h].kind = "refresh"
  /\ LET cur == manifest[hd[h].user]
         r == RefreshCounts([Objects |-> cur.Objects, MaxLimit |-> cur.MaxLimit])
     IN \E rd \in ReadOutcomesSingle(cur, faults) :
          IF rd = "ok" /\ r.updated
          THEN /\ hd' = [hd EXCEPT ![h].pc = "write", ![h].quota = r.quota]
               /\ UNCHANGED locker
          ELSE /\ hd' = [hd EXCEPT ![h] = IF rd = "ok" THEN HNextUser(@) ELSE HDone(@, 400)]
               /\ locker' = [locker EXCEPT ![hd[h].user] = ""]
  /\ UNCHANGED <<variant, faults, ctx, data, voicemails, multiVars, ncalls, manifest>>

HRefreshWrite(h) ==
  /\ variant = "single"
  /\ hd[h].pc = "write" /\ hd[h].kind = "refresh"
  /\ \/ /\ manifest' = [manifest EXCEPT ![hd[h].user] = PutManifest(hd[h].quota)]
        /\ hd' = [hd EXCEPT ![h] = HNextUser(@)]
     \/ /\ faults
        /\ hd' = [hd EXCEPT ![h] = HDone(@, 400)]
        /\ UNCHANGED manifest
  /\ locker' = [locker EXCEPT ![hd[h].user] = ""]
  /\ UNCHANGED <<variant, faults, ctx, data, voicemails, multiVars, ncalls>>

\* purgeHandler: ListObjects on the data bucket ("voicemails").
HStartPurge(h) ==
  \/ faults /\ HStart(h, "purge", "", <<>>, "done", 500, <<>>)
  \/ IF ListingData(voicemails, 1) = <<>>
     THEN HStart(h, "purge", "", <<>>, "done", 200, <<>>)
     ELSE HStart(h, "purge", "", <<>>, "psweep", 0, ListingData(voicemails, 1))

\* The loop of purgeHandler goes on with the next listed key, or ends (200).
HNextKey(hr, outcome) ==
  IF Len(hr.todo) <= 1
  THEN [hr EXCEPT !.pc = "done", !.status = 200, !.todo = <<>>, !.rd = outcome]
  ELSE [hr EXCEPT !.todo = Tail(hr.todo), !.rd = outcome]

\* purgeHandler: one iteration of the loop over the listed keys.
HPurgeStep(h) ==
  /\ variant = "single"
  /\ hd[h].pc = "psweep" /\ hd[h].kind = "purge"
  /\ LET key == Head(hd[h].todo)
     IN \/ /\ faults
           /\ hd' = [hd EXCEPT ![h] = [@ EXCEPT !.pc = "done", !.status = 500,
                                                !.todo = <<>>, !.rd = "listfail"]]
           /\ UNCHANGED voicemails
        \/ /\ ParseDate(key) = -1
           /\ hd' = [hd EXCEPT ![h] = HNextKey(@, "skipped")]
           /\ UNCHANGED voicemails
        \/ /\ ParseDate(key) # -1 /\ ~PurgeExpired(key)
           /\ hd' = [hd EXCEPT ![h] = HNextKey(@, "kept")]
           /\ UNCHANGED voicemails
        \/ /\ ParseDate(key) # -1 /\ PurgeExpired(key)
           /\ \/ /\ voicemails' = voicemails \ {key}
                 /\ hd' = [hd EXCEPT ![h] = HNextKey(@, "deleted")]
              \/ /\ faults
                 /\ hd' = [hd EXCEPT ![h] = HNextKey(@, "delfail")]
                 /\ UNCHANGED voicemails
  /\ UNCHANGED <<variant, faults, ctx, data, multiVars, ncalls, manifest, locker>>

Next ==
  \/ \E c \in Calls, p \in NotifPaths : StartUpdate(c, p)
  \/ \E c \in Calls, p \in NotifPaths : IgnoreNotification(c, p)
  \/ \E c \in Calls, s \in Sites : UpdateRead(c, s)
  \/ \E c \in Calls, s \in Sites : UpdateWrite(c, s)
  \/ \E c \in Calls : UpdateReturn(c)
  \/ \E c \in Calls, u \in UserSet : StartCheck(c, u)
  \/ \E c \in Calls, s \in Sites : CheckSite(c, s)
  \/ \E c \in Calls : CheckReturn(c)
  \/ \E c \in Calls : StartRefresh(c)
  \/ \E c \in Calls, s \in Sites : RefreshList(c, s)
  \/ \E c \in Calls, s \in Sites : RefreshRead(c, s)
  \/ \E c \in Calls, s \in Sites : RefreshWrite(c, s)
  \/ \E c \in Calls : RefreshReturn(c)
  \/ \E h \in Handlers, n \in Notifications : HNotify(h, n)
  \/ \E h \in Handlers, u \in UserSet : HStartCheck(h, u)
  \/ \E h \in Handlers : HStartRefresh(h)
  \/ \E h \in Handlers : HLock(h)
  \/ \E h \in Handlers : HUpdateRead(h)
  \/ \E h \in Handlers : HUpdateWrite(h)
  \/ \E h \in Handlers : HCheck(h)
  \/ \E h \in Handlers : HRefreshRead(h)
  \/ \E h \in Handlers : HRefreshWrite(h)
  \/ \E c \in Calls : StartPurge(c)
  \/ \E c \in Calls, s \in Sites : PurgeList(c, s)
  \/ \E c \in Calls, s \in Sites : PurgeStep(c, s)
  \/ \E c \in Calls : PurgeReturn(c)
  \/ \E h \in Handlers : HStartPurge(h)
  \/ \E h \in Handlers : HPurgeStep(h)
  \/ \E c \in Calls : Cancel(c)

Spec == Init /\ [][Next]_vars

\* The goroutines that updateQuota started are scheduled until they return,
\* and g.WaitErr() returns once they all have.
UpdateFairness ==
  /\ \A c \in Calls, s \in Sites :
       WF_vars(UpdateRead(c, s)) /\ WF_vars(UpdateWrite(c, s))
  /\ \A c \in Calls : WF_vars(UpdateReturn(c))
FairSpec == Spec /\ UpdateFairness

\* A handler goroutine that holds a user's mutex is scheduled until it returns
\* (its deferred unlock runs then).
HandlerFairness ==
  \A h \in Handlers :
    /\ WF_vars(HUpdateRead(h)) /\ WF_vars(HUpdateWrite(h)) /\ WF_vars(HCheck(h))
    /\ WF_vars(HRefreshRead(h)) /\ WF_vars(HRefreshWrite(h))
LockSpec == Spec /\ HandlerFairness

\* ================================================================ claims
\* What the steps below read and decide, named for the formulas.
LedgerOf(s, c) == store[s][call[c].user]
PostEviction(objects) == RefreshObjects(objects)

\* A step in which goroutine (c, s) of an update runs one read-evict-check.
UpdateAttemptStep(c, s) == Running(c, "update", s, "read") /\ w'[c][s] # w[c][s]
\* ... and the read itself did not fail.
ReadSucceeded(c, s) == w'[c][s].pc = "write" \/ w'[c][s].err \in {"nil", "exceeded"}
\* ... and the attempt returned errMaxLimitExceeded without going on to the PUT.
Rejected(c, s) == w'[c][s].pc # "write" /\ w'[c][s].err = "exceeded"

\* The same for the single-site updateQuotaHandler.
HandlerAttemptStep(h) ==
  variant = "single" /\ hd[h].kind = "update" /\ hd[h].pc = "read" /\ hd'[h] # hd[h]
HandlerReadSucceeded(h) == hd'[h].pc = "write" \/ hd'[h].status = 403
HandlerRejected(h) == hd'[h].pc = "done" /\ hd'[h].status = 403

\* ---- C1: every persisted ledger of every user at every site holds at most
\* its capacity in entries, in every reachable state: no write of an Update or
\* of a Refresh, in any interleaving with Check, takes a ledger over it.
C1_CapacityInvariant ==
  \A s \in Sites, u \in UserSet :
    store[s][u].etag # 0 => Cardinality(store[s][u].Objects) <= store[s][u].MaxLimit

\* A ledger that a Refresh and then an Update wrote and that is exactly full.
C1_Witness ==
  \E s \in Sites :
    /\ store[s]["u1"].etag >= 3
    /\ Cardinality(store[s]["u1"].Objects) = store[s]["u1"].MaxLimit
    /\ \E c \in Calls : call[c].kind = "refresh"

\* ---- C2: two Update calls for the same user with distinct paths that both
\* ended in success at a site leave both paths in that site's ledger, whoever
\* wrote first; and with sites that do not fail, no update of the two is given
\* up because of conflicts.
C2_NoLostUpdate ==
  /\ \A c1, c2 \in Calls, s \in s3Clients :
       ( /\ c1 # c2
         /\ call[c1].kind = "update" /\ call[c2].kind = "update"
         /\ call[c1].user = call[c2].user /\ call[c1].path # call[c2].path
         /\ w[c1][s].pc = "done" /\ w[c2][s].pc = "done"
         /\ w[c1][s].err = "nil" /\ w[c2][s].err = "nil" )
       => {call[c1].path, call[c2].path} \subseteq store[s][call[c1].user].Objects
  /\ \A c \in Calls, s \in s3Clients :
       (~faults /\ call[c].kind = "update" /\ w[c][s].pc = "done") => w[c][s].err = "nil"

\* Both calls returned nil, both paths are at both sites, and one of the
\* writers lost a conditional PUT on the way and retried.
C2_Witness ==
  /\ s3Clients = {1, 2}
  /\ call["c1"].kind = "update" /\ call["c2"].kind = "update"
  /\ call["c1"].phase = "returned" /\ call["c2"].phase = "returned"
  /\ call["c1"].ret = "nil" /\ call["c2"].ret = "nil"
  /\ call["c1"].path # call["c2"].path
  /\ \A s \in s3Clients : {a3, b3} \subseteq store[s]["u1"].Objects
  /\ \E c \in Calls, s \in s3Clients : w[c][s].attempts >= 2

\* ---- C3 (as stated): an attempt that reads a ledger whose persisted entry
\* count equals its capacity and whose path is not in it is rejected with
\* errMaxLimitExceeded, issues no PUT and leaves the store as it was.
C3_RejectAtPersistedCapacity ==
  [][ \A c \in Calls, s \in Sites :
        ( /\ UpdateAttemptStep(c, s) /\ ReadSucceeded(c, s)
          /\ LedgerOf(s, c).etag # 0
          /\ Cardinality(LedgerOf(s, c).Objects) = LedgerOf(s, c).MaxLimit
          /\ call[c].path \notin LedgerOf(s, c).Objects )
        => (Rejected(c, s) /\ store' = store) ]_vars

\* ---- C3 (amended): an attempt that reads a ledger whose entry count after
\* eviction equals its capacity, and whose path is not among the entries that
\* survive eviction, is rejected with QuotaExceeded, issues no PUT and leaves
\* the persisted ledger (entries, capacity, ETag) as it was; in both builds.
C3_RejectionLeavesStateUnchanged ==
  [][ /\ \A c \in Calls, s \in Sites :
           ( /\ UpdateAttemptStep(c, s) /\ ReadSucceeded(c, s)
             /\ LedgerOf(s, c).etag # 0
             /\ Cardinality(PostEviction(LedgerOf(s, c).Objects)) = LedgerOf(s, c).MaxLimit
             /\ call[c].path \notin PostEviction(LedgerOf(s, c).Objects) )
           => (Rejected(c, s) /\ store' = store)
      /\ \A h \in Handlers :
           ( /\ HandlerAttemptStep(h) /\ HandlerReadSucceeded(h)
             /\ manifest[hd[h].user].exists
             /\ Cardinality(PostEviction(DOMAIN manifest[hd[h].user].Objects))
                  = manifest[hd[h].user].MaxLimit
             /\ hd[h].path \notin PostEviction(DOMAIN manifest[hd[h].user].Objects) )
           => (HandlerRejected(h) /\ manifest' = manifest) ]_vars

\* A goroutine whose last attempt was rejected at a ledger that is full after
\* eviction and was never written.
C3_Witness ==
  \E c \in Calls, s \in s3Clients :
    /\ call[c].kind = "update" /\ w[c][s].pc = "done" /\ w[c][s].err = "exceeded"
    /\ LedgerOf(s, c).etag = 1
    /\ Cardinality(PostEviction(LedgerOf(s, c).Objects)) = LedgerOf(s, c).MaxLimit
    /\ call[c].path \notin LedgerOf(s, c).Objects

\* ---- C4: for a path that is not among the entries surviving eviction, an
\* update attempt is rejected with QuotaExceeded if and only if that entry
\* count plus one exceeds the capacity (a missing ledger counts no entry, with
\* the configured capacity); stated for the per-site update of both builds.
ThresholdMulti ==
  \A c \in Calls, s \in Sites :
    ( /\ UpdateAttemptStep(c, s) /\ ReadSucceeded(c, s)
      /\ call[c].path \notin PostEviction(LedgerOf(s, c).Objects) )
    => ( Rejected(c, s) <=>
           Cardinality(PostEviction(LedgerOf(s, c).Objects)) + 1 >
             (IF LedgerOf(s, c).etag = 0 THEN maxLimit ELSE LedgerOf(s, c).MaxLimit) )
ThresholdSingle ==
  \A h \in Handlers :
    ( /\ HandlerAttemptStep(h) /\ HandlerReadSucceeded(h)
      /\ hd[h].path \notin PostEviction(DOMAIN manifest[hd[h].user].Objects) )
    => ( HandlerRejected(h) <=>
           Cardinality(PostEviction(DOMAIN manifest[hd[h].user].Objects)) + 1 >
             (IF manifest[hd[h].user].exists THEN manifest[hd[h].user].MaxLimit
              ELSE maxLimit) )
C4_ExactThreshold == [][ThresholdMulti /\ ThresholdSingle]_vars

\* The multi-site part of C4 alone (it holds: the divergence is the handler's).
ThresholdMultiOnly == [][ThresholdMulti]_vars

\* ---- C5: an update attempt that finds its path among the entries surviving
\* eviction returns nil at once, goes on to no PUT and leaves the store as it
\* was, however often the notification is delivered again and also when the
\* ledger is full; and a call all of whose sites returned nil returns nil.
C5_IdempotentRedelivery ==
  [][ /\ \A c \in Calls, s \in Sites :
           ( /\ UpdateAttemptStep(c, s) /\ ReadSucceeded(c, s)
             /\ LedgerOf(s, c).etag # 0
             /\ call[c].path \in PostEviction(LedgerOf(s, c).Objects) )
           => ( /\ w'[c][s].pc = "done" /\ w'[c][s].err = "nil"
                /\ store' = store )
      /\ \A c \in Calls :
           ( /\ call[c].kind = "update" /\ call[c].phase = "running"
             /\ call'[c].phase = "returned"
             /\ \A s \in s3Clients : w[c][s].err = "nil" )
           => call'[c].ret = "nil" ]_vars

\* The same notification delivered twice to a full ledger that holds its
\* path: both calls returned nil at the first attempt, nothing was written.
C5_Witness ==
  /\ call["c1"].kind = "update" /\ call["c2"].kind = "update"
  /\ call["c1"].path = call["c2"].path
  /\ call["c1"].phase = "returned" /\ call["c2"].phase = "returned"
  /\ call["c1"].ret = "nil" /\ call["c2"].ret = "nil"
  /\ \A s \in s3Clients :
       /\ store[s]["u1"].etag = 1
       /\ call["c1"].path \in store[s]["u1"].Objects
       /\ Cardinality(store[s]["u1"].Objects) = store[s]["u1"].MaxLimit
       /\ w["c1"][s].attempts = 1 /\ w["c2"][s].attempts = 1

\* ---- C6: a notification whose date is the current UTC day or an earlier
\* one changes no ledger and is not refused: no step taken for it writes a
\* ledger, the multi-site call made for it returns nil, and the handler does
\* not answer it 403 (statuses caused by a fault of the store are left aside).
Expired(path) ==
  Len(path) >= 3 /\ ParseDate(path[1]) # -1 /\ ParseDate(path[1]) <= getCurrentDateInUTC
C6_ExpiredIgnored ==
  [][ /\ \A c \in Calls :
           (call[c].kind \in {"update", "ignored"} /\ Expired(call[c].path))
           => ( /\ \A s \in Sites : w[c][s].pc = "write" => store'[s] = store[s]
                /\ call[c].phase = "returned" => call[c].ret = "nil" )
      /\ \A h \in Handlers :
           (hd[h].kind = "update" /\ Expired(hd[h].path))
           => ( /\ (hd[h].pc = "write" /\ hd'[h].pc = "done") => manifest' = manifest
                /\ hd[h].pc = "done" => hd[h].status # 403 ) ]_vars

\* ---- C7: a Check returns errMaxLimitExceeded as soon as one site reports it,
\* whatever the other sites report; without such a site it returns an error
\* exactly when some site reported one. A site reports exceeded when the
\* ledger it read holds, after eviction, at least its capacity in entries.
SiteExceeded(c, s) == w[c][s].err = "exceeded"
C7_CheckAggregation ==
  \A c \in Calls :
    (call[c].kind = "check" /\ call[c].phase = "returned") =>
      /\ (\E s \in s3Clients : SiteExceeded(c, s)) => call[c].ret = "exceeded"
      /\ (\A s \in s3Clients : ~SiteExceeded(c, s)) =>
           /\ call[c].ret # "exceeded"
           /\ call[c].ret # "nil" <=> \E s \in s3Clients : w[c][s].err # "nil"
           /\ call[c].ret # "nil" => \E s \in s3Clients : w[c][s].err = call[c].ret
      /\ slots = {c} =>
           \A s \in s3Clients :
             ( /\ w[c][s].rd = "ok"
               /\ Cardinality(PostEviction(LedgerOf(s, c).Objects)) >= LedgerOf(s, c).MaxLimit )
             => call[c].ret = "exceeded"

\* Site 1 reports exceeded, site 2 (later in the list) another error: exceeded.
C7_Witness ==
  \E c \in Calls :
    /\ call[c].kind = "check" /\ call[c].phase = "returned"
    /\ w[c][1].err = "exceeded" /\ w[c][1].rd = "ok"
    /\ w[c][2].err \notin {"nil", "exceeded"}
    /\ call[c].ret = "exceeded"

\* ---- C8: in a Check, a site where the user has no ledger (NoSuchKey)
\* contributes no error, a Check of a user with no ledger anywhere returns
\* nil, and a read that failed for another reason is that site's error.
C8_NotFoundIsNotFailure ==
  /\ \A c \in Calls, s \in s3Clients :
       (call[c].kind = "check" /\ w[c][s].pc = "done") =>
         /\ w[c][s].rd = "NoSuchKey" => w[c][s].err = "nil"
         /\ w[c][s].rd = "error" => w[c][s].err \notin {"nil", "exceeded"}
  /\ \A c \in Calls :
       ( /\ call[c].kind = "check" /\ call[c].phase = "returned"
         /\ \A s \in s3Clients : w[c][s].rd = "NoSuchKey" )
       => call[c].ret = "nil"
  /\ \A h \in Handlers :
       (hd[h].kind = "check" /\ hd[h].pc = "done" /\ ~manifest[hd[h].user].exists)
       => hd[h].status # 500

\* ---- C9: a multi-site Update returns an error exactly when the update of
\* at least one site ended in one, and the path stays in the ledger of every
\* site whose update ended in nil, also when another site failed.
C9_UpdateAggregation ==
  \A c \in Calls :
    (call[c].kind = "update" /\ call[c].phase = "returned") =>
      /\ call[c].ret # "nil" <=> \E s \in s3Clients : w[c][s].err # "nil"
      /\ \A s \in s3Clients :
           w[c][s].err = "nil" => call[c].path \in LedgerOf(s, c).Objects

\* Site 1 took the path, site 2 failed: the call failed and site 1 keeps it.
C9_Witness ==
  \E c \in Calls :
    /\ call[c].kind = "update" /\ call[c].phase = "returned"
    /\ w[c][1].err = "nil" /\ store[1][call[c].user].etag = 2
    /\ call[c].path \in store[1][call[c].user].Objects
    /\ w[c][2].err # "nil" /\ call[c].path \notin store[2][call[c].user].Objects
    /\ call[c].ret # "nil"

\* ---- C10: an Update of which at least one site reported QuotaExceeded
\* returns QuotaExceeded, whatever the other sites' failures are and wherever
\* they stand in the list of sites.
C10_ExceededSurfaced ==
  \A c \in Calls :
    ( /\ call[c].kind = "update" /\ call[c].phase = "returned"
      /\ \E s \in s3Clients : w[c][s].err = "exceeded" )
    => call[c].ret = "exceeded"

\* ---- C11: an update attempt that returns errMaxLimitExceeded ends the
\* goroutine of its site at that attempt: no further attempt is started, and
\* the only attempts that are followed by another one are those that failed
\* with a conflict or with an I/O error.
C11_ExceededNotRetried ==
  [][ \A c \in Calls, s \in Sites :
        /\ (UpdateAttemptStep(c, s) /\ Rejected(c, s))
             => (w'[c][s].pc = "done" /\ w'[c][s].attempts = w[c][s].attempts)
        /\ ( /\ Running(c, "update", s, w[c][s].pc)
             /\ w'[c][s].attempts > w[c][s].attempts )
             => w'[c][s].err \in {"read", "etag", "conflict", "put"} ]_vars

\* ---- C12: the goroutine of a site makes at most retryAttempts (3) attempts
\* of an update; the error it ends with is the error of the attempt it ended
\* on (of the read-evict-check when that failed, of the PUT when that failed);
\* updateQuota returns only when the goroutines of all sites have ended, and
\* every update that was started does return.
AttemptsBounded ==
  \A c \in Calls, s \in s3Clients :
    call[c].kind = "update" => w[c][s].attempts <= retryAttempts
SurfacesLastAttempt ==
  \A c \in Calls, s \in Sites :
    ( /\ Running(c, "update", s, w[c][s].pc)
      /\ w'[c][s].pc = "done" /\ w'[c][s].err # "nil" )
    => /\ w[c][s].pc = "read" => w'[c][s].err \in {"read", "etag", "exceeded"}
       /\ w[c][s].pc = "write" => w'[c][s].err \in {"conflict", "put"}
       /\ w'[c][s].err # "exceeded" => w[c][s].attempts = retryAttempts
ReturnsAfterAllSites ==
  \A c \in Calls :
    ( /\ call[c].kind = "update" /\ call[c].phase = "running"
      /\ call'[c].phase = "returned" )
    => AllDone(c)
C12_BoundedRetryTerminates ==
  /\ []AttemptsBounded
  /\ [][SurfacesLastAttempt /\ ReturnsAfterAllSites]_vars
  /\ \A c \in Calls :
       (call[c].kind = "update" /\ call[c].phase = "running")
         ~> (call[c].kind = "update" /\ call[c].phase = "returned")

\* An update that returned an error after the goroutine of site 1 used up its
\* three attempts, the last of which failed at the PUT.
C12_Witness ==
  \E c \in Calls :
    /\ call[c].kind = "update" /\ call[c].phase = "returned" /\ call[c].ret # "nil"
    /\ w[c][1].pc = "done" /\ w[c][1].attempts = retryAttempts
    /\ w[c][1].err \in {"conflict", "put"}

\* ---- C13: eviction removes exactly the entries that have fewer than three
\* segments, or whose first segment is not a date, or whose date is today or
\* an earlier day; it keeps every other entry, adds none, leaves the capacity
\* alone and reports TRUE exactly when it removed an entry. Stated of every
\* ledger a site or the single store holds and of the ledgers of EvictInputs.
EvictInputs == SUBSET {a1, a2, a3, ax, sh}
ShouldEvict(object) ==
  \/ Len(object) < 3
  \/ ParseDate(object[1]) = -1
  \/ ParseDate(object[1]) <= getCurrentDateInUTC
EvictsAsStated(objects, limit) ==
  LET r == Refresh([Objects |-> objects, MaxLimit |-> limit])
  IN /\ r.quota.Objects = {o \in objects : ~ShouldEvict(o)}
     /\ r.quota.MaxLimit = limit
     /\ r.updated <=> r.quota.Objects # objects
CountsEvictAsStated(quota) ==
  LET r == RefreshCounts(quota)
  IN /\ DOMAIN r.quota.Objects = {o \in DOMAIN quota.Objects : ~ShouldEvict(o)}
     /\ \A o \in DOMAIN r.quota.Objects : r.quota.Objects[o] = quota.Objects[o]
     /\ r.quota.MaxLimit = quota.MaxLimit
     /\ r.updated <=> DOMAIN r.quota.Objects # DOMAIN quota.Objects
C13_EvictionRule ==
  /\ \A s \in Sites, u \in UserSet :
       EvictsAsStated(store[s][u].Objects, store[s][u].MaxLimit)
  /\ \A u \in UserSet :
       CountsEvictAsStated([Objects |-> manifest[u].Objects, MaxLimit |-> manifest[u].MaxLimit])
  /\ \A objects \in EvictInputs : EvictsAsStated(objects, maxLimit)

\* ---- C14: evicting twice (same day) gives the entries that evicting once
\* gives, and the second eviction reports that it removed nothing. Stated of
\* every ledger a site holds, of every quota a goroutine is about to PUT and
\* of the ledgers of EvictInputs (these are tried before the first request).
EvictIdempotent(quota) ==
  LET once == Refresh(quota)
      twice == Refresh(once.quota)
  IN twice.quota = once.quota /\ ~twice.updated
C14_EvictionIdempotent ==
  /\ \A s \in Sites, u \in UserSet :
       EvictIdempotent([Objects |-> store[s][u].Objects, MaxLimit |-> store[s][u].MaxLimit])
  /\ \A c \in Calls, s \in Sites : EvictIdempotent(w[c][s].quota)
  /\ ncalls = 0 =>
       \A objects \in EvictInputs :
         EvictIdempotent([Objects |-> objects, MaxLimit |-> maxLimit])

\* Two Refresh sweeps returned: the first wrote u1's ledger without its
\* expired entry, the second read that ledger, evicted nothing and wrote nothing.
C14_Witness ==
  /\ call["c1"].kind = "refresh" /\ call["c2"].kind = "refresh"
  /\ call["c1"].phase = "returned" /\ call["c2"].phase = "returned"
  /\ call["c1"].ret = "nil" /\ call["c2"].ret = "nil"
  /\ \A s \in s3Clients :
       /\ store[s]["u1"].etag = 2 /\ store[s]["u1"].Objects = {c3}
       /\ w["c1"][s].attempts = 1 /\ w["c2"][s].attempts = 1

\* ---- C15: a Purge sweep never deletes a partition dated today or later,
\* deletes a partition of an earlier day when RemoveObject succeeds, and
\* passes over a prefix that is not a date without deleting it and without
\* failing; nothing but partitions of earlier days ever leaves a data bucket.
\* Stated of purge (every site) and of purgeHandler.
PurgeStepOf(c, s) == Running(c, "purge", s, "psweep") /\ w'[c][s] # w[c][s]
HPurgeStepOf(h) ==
  variant = "single" /\ hd[h].kind = "purge" /\ hd[h].pc = "psweep" /\ hd'[h] # hd[h]
DateRule(key, before, after, outcome, failed) ==
  /\ outcome # "listfail" =>
       /\ ParseDate(key) = -1 => (outcome = "skipped" /\ after = before /\ ~failed)
       /\ ParseDate(key) >= getCurrentDateInUTC => (outcome = "kept" /\ after = before)
       /\ (ParseDate(key) # -1 /\ ParseDate(key) < getCurrentDateInUTC) =>
            /\ outcome \in {"deleted", "delfail"}
            /\ outcome = "deleted" => after = before \ {key}
  /\ \A k \in before \ after : ParseDate(k) # -1 /\ ParseDate(k) < getCurrentDateInUTC
C15_PurgeDateRule ==
  [][ /\ \A c \in Calls, s \in Sites :
           PurgeStepOf(c, s) =>
             DateRule(Head(w[c][s].todo), data[s], data'[s], w'[c][s].rd,
                      w'[c][s].err # "nil")
      /\ \A h \in Handlers :
           HPurgeStepOf(h) =>
             DateRule(Head(hd[h].todo), voicemails, voicemails', hd'[h].rd,
                      hd'[h].status \notin {0, 200})
      /\ \A s \in Sites : \A k \in data[s] \ data'[s] :
           ParseDate(k) # -1 /\ ParseDate(k) < getCurrentDateInUTC
      /\ \A k \in voicemails \ voicemails' :
           ParseDate(k) # -1 /\ ParseDate(k) < getCurrentDateInUTC ]_vars

\* A purge that returned nil: both past partitions of site 1 are gone, today's
\* and the unparsable prefix are still there; site 2 keeps its later one.
C15_Witness ==
  \E c \in Calls :
    /\ call[c].kind = "purge" /\ call[c].phase = "returned" /\ call[c].ret = "nil"
    /\ data[1] = {"d2", "xx"} /\ data[2] = {"d3"}

\* ---- C16: a ledger that was PUT to a site and is read back there before
\* any other write has the entries and the capacity of the quota that was
\* written: the step that writes leaves them as the site's content, and every
\* quota encoded and decoded again is the quota it was.
WrittenBy(c, s, u) ==
  /\ Running(c, call[c].kind, s, "write") /\ w'[c][s] # w[c][s]
  /\ store'[s][u] # store[s][u]
C16_RoundTrip ==
  [][ /\ \A c \in Calls, s \in Sites, u \in UserSet :
           WrittenBy(c, s, u) =>
             /\ store'[s][u].Objects = w[c][s].quota.Objects
             /\ store'[s][u].MaxLimit = w[c][s].quota.MaxLimit
             /\ \A rd \in ReadOutcomes(store'[s][u], FALSE) : rd = "ok"
      /\ \A c \in Calls, s \in Sites :
           parseUserQuota(Write(w[c][s].quota)) = w[c][s].quota ]_vars

\* An Update wrote u1's ledger at site 1 and returned; a Check then read that
\* ledger, which nobody had written in between.
C16_Witness ==
  /\ call["c1"].kind = "update" /\ call["c1"].phase = "returned" /\ call["c1"].ret = "nil"
  /\ call["c2"].kind = "check" /\ call["c2"].user = "u1"
  /\ w["c2"][1].pc = "done" /\ w["c2"][1].rd = "ok"
  /\ store[1]["u1"].etag = 2
  /\ call["c1"].path \in store[1]["u1"].Objects

\* ---- C17: no step of a Check (its start, the read of a site, its return;
\* the handler of the single-site build likewise) changes a ledger, an ETag
\* or a data bucket, also when the ledger it read holds expired entries that
\* its eviction in memory removes.
CheckStep(c) ==
  \/ /\ call[c].kind = "check" /\ call[c].phase = "running"
     /\ (w'[c] # w[c] \/ call'[c] # call[c])
  \/ /\ call'[c].kind = "check" /\ call'[c].phase = "running"
     /\ call'[c] # call[c]
HCheckStep(h) ==
  /\ variant = "single"
  /\ hd'[h] # hd[h]
  /\ hd[h].kind = "check" \/ hd'[h].kind = "check"
C17_CheckReadOnly ==
  [][ /\ \A c \in Calls : CheckStep(c) => (store' = store /\ data' = data)
      /\ \A h \in Handlers :
           HCheckStep(h) => (manifest' = manifest /\ voicemails' = voicemails) ]_vars

\* A Check that returned nil after reading, at both sites, a ledger with an
\* expired entry that eviction removes: the ledgers are as they were written.
C17_Witness ==
  \E c \in Calls :
    /\ call[c].kind = "check" /\ call[c].phase = "returned" /\ call[c].ret = "nil"
    /\ \A s \in s3Clients :
         /\ w[c][s].rd = "ok"
         /\ store[s][call[c].user].etag = 1
         /\ store[s][call[c].user].Objects = {a1, c3}

\* ---- C18: in a Refresh sweep the goroutine of a site goes on to PUT a
\* ledger it read exactly when eviction removed an entry from it, and then
\* PUTs the evicted ledger under the ETag of that read; a ledger is changed by
\* a sweep only through a PUT whose ETag is the ledger's current one, so a
\* ledger without expired entries keeps its content and its ETag.
RefreshStepOf(c, s) ==
  /\ call[c].kind = "refresh" /\ call[c].phase = "running"
  /\ s \in s3Clients /\ w'[c][s] # w[c][s]
SweepUser(c, s) == Head(w[c][s].todo)
SweepLedger(c, s) == store[s][SweepUser(c, s)]
C18_RefreshWritesOnChange ==
  [][ \A c \in Calls, s \in Sites :
        RefreshStepOf(c, s) =>
          /\ (w[c][s].pc = "read" /\ w'[c][s].rd = "ok")
               => /\ store' = store
                  /\ w'[c][s].pc = "write" <=>
                       PostEviction(SweepLedger(c, s).Objects) # SweepLedger(c, s).Objects
                  /\ w'[c][s].pc = "write" =>
                       /\ w'[c][s].etag = SweepLedger(c, s).etag
                       /\ w'[c][s].quota.Objects = PostEviction(SweepLedger(c, s).Objects)
                       /\ w'[c][s].quota.MaxLimit = SweepLedger(c, s).MaxLimit
          /\ w[c][s].pc \notin {"read", "write"} => store' = store
          /\ w[c][s].pc = "write" =>
               /\ \A t \in Sites, u \in UserSet :
                    (t # s \/ u # SweepUser(c, s)) => store'[t][u] = store[t][u]
               /\ store' # store =>
                    /\ w[c][s].etag = SweepLedger(c, s).etag
                    /\ store'[s][SweepUser(c, s)].Objects = w[c][s].quota.Objects
                    /\ store'[s][SweepUser(c, s)].etag # SweepLedger(c, s).etag ]_vars

\* A sweep that returned: at site 1 it rewrote the ledger that held an expired
\* entry, at site 2 it left the ledger without one as it was.
C18_Witness ==
  \E c \in Calls :
    /\ call[c].kind = "refresh" /\ call[c].phase = "returned"
    /\ store[1]["u1"].etag = 2 /\ store[1]["u1"].Objects = {c3}
    /\ store[2]["u1"].etag = 1 /\ store[2]["u1"].Objects = {a3, c3}

\* ---- C19: in a Refresh sweep, a user whose refresh failed on its last
\* attempt does not end the sweep of the site: the sweep goes on with the
\* next listed user and that failure is not the site's result; the result of
\* a site is an error only when its listing failed, and a step of one site's
\* sweep leaves the sweeps of the other sites alone. Stated of refreshQuota
\* and of quotaRefreshHandler.
IsolationMulti ==
  \A c \in Calls, s \in Sites :
    RefreshStepOf(c, s) =>
      /\ \A t \in Sites : t # s => w'[c][t] = w[c][t]
      /\ ( /\ w[c][s].pc \in {"read", "write"}
           /\ w'[c][s].rd \in {"error", "noetag", "putfail", "conflict"} )
         => /\ w'[c][s].err = "nil"
            /\ w[c][s].attempts < retryAttempts =>
                 (w'[c][s].pc = "read" /\ w'[c][s].todo = w[c][s].todo)
            /\ (w[c][s].attempts >= retryAttempts /\ Len(w[c][s].todo) > 1) =>
                 (w'[c][s].pc = "read" /\ w'[c][s].todo = Tail(w[c][s].todo))
      /\ w'[c][s].err # "nil" => (w[c][s].pc = "list" /\ w'[c][s].pc = "done")
IsolationSingle ==
  \A h \in Handlers :
    ( /\ variant = "single" /\ hd[h].kind = "refresh"
      /\ hd[h].pc \in {"read", "write"} /\ hd'[h] # hd[h] )
    => /\ hd'[h].status # 400
       /\ Len(hd[h].todo) > 1 => hd'[h].pc # "done"
C19_RefreshFailureIsolation == [][IsolationMulti /\ IsolationSingle]_vars

\* The part of C19 that is about refreshQuota (it holds).
RefreshIsolationMultiOnly == [][IsolationMulti]_vars

\* ---- C20: in a Purge sweep, a RemoveObject that failed does not end the
\* sweep of the site and is not its result: the sweep goes on with the next
\* listed key (which C15's rule then deletes if it is expired) and ends in nil
\* once the listing is used up; a site's result is an error only when its
\* listing failed, which ends that site's sweep alone; purge returns an error
\* exactly when some site's listing failed.
C20_PurgeFailureIsolation ==
  [][ /\ \A c \in Calls, s \in Sites :
           ( /\ Running(c, "purge", s, w[c][s].pc) /\ w'[c][s] # w[c][s] )
           => /\ \A t \in Sites : t # s => (w'[c][t] = w[c][t] /\ data'[t] = data[t])
              /\ w'[c][s].rd = "delfail" =>
                   /\ w'[c][s].err = "nil"
                   /\ Len(w[c][s].todo) > 1 =>
                        (w'[c][s].pc = "psweep" /\ w'[c][s].todo = Tail(w[c][s].todo))
                   /\ Len(w[c][s].todo) <= 1 => w'[c][s].pc = "done"
              /\ w'[c][s].err # "nil" =>
                   (w'[c][s].rd = "listfail" /\ w'[c][s].err = "list" /\ w'[c][s].pc = "done")
              /\ (w'[c][s].pc = "done" /\ w'[c][s].err = "nil") => Len(w[c][s].todo) <= 1
      /\ \A c \in Calls :
           (call[c].kind = "purge" /\ call[c].phase = "returned") =>
             (call[c].ret # "nil" <=> \E s \in s3Clients : w[c][s].err = "list") ]_vars

\* A purge that returned the listing error of site 2, while the sweep of site
\* 1 ran to its end: the deletion of d0 failed, d1, listed after it, is gone.
C20_Witness ==
  \E c \in Calls :
    /\ call[c].kind = "purge" /\ call[c].phase = "returned" /\ call[c].ret = "list"
    /\ w[c][1].pc = "done" /\ w[c][1].err = "nil"
    /\ data[1] = {"d0", "d2", "xx"}
    /\ w[c][2].err = "list"

\* ---- C21: an Update returns nil only when the goroutine of every configured
\* site ended in nil, and a goroutine ends in nil only in a step after which
\* the path is in the persisted ledger of its site (the step PUT it there, or
\* read a ledger that held it): no Update returns nil while a configured site
\* has not held the path.
SiteSucceeds(c, s) ==
  /\ Running(c, "update", s, w[c][s].pc)
  /\ w'[c][s].pc = "done" /\ w'[c][s].err = "nil"
UpdateReturnsNil(c) ==
  /\ call[c].kind = "update" /\ call[c].phase = "running"
  /\ call'[c].phase = "returned" /\ call'[c].ret = "nil"
C21_SuccessMeansPersisted ==
  [][ /\ \A c \in Calls, s \in Sites :
           SiteSucceeds(c, s) => call[c].path \in store'[s][call[c].user].Objects
      /\ \A c \in Calls :
           UpdateReturnsNil(c) =>
             \A s \in s3Clients :
               /\ w[c][s].pc = "done" /\ w[c][s].err = "nil"
               /\ call[c].path \in store[s][call[c].user].Objects ]_vars

\* An Update that returned nil: site 1 took the path with a PUT, site 2 held
\* it already and was not written.
C21_Witness ==
  \E c \in Calls :
    /\ call[c].kind = "update" /\ call[c].phase = "returned" /\ call[c].ret = "nil"
    /\ s3Clients = {1, 2}
    /\ store[1][call[c].user].etag = 2 /\ store[2][call[c].user].etag = 1
    /\ \A s \in s3Clients : call[c].path \in store[s][call[c].user].Objects

\* ---- C22: a PUT of a Refresh sweep removes from a ledger only entries that
\* are stale, so a path an Update wrote there stays unless it is stale itself;
\* and a PUT of a sweep that carries the ETag of a read made before another
\* write of that ledger is refused, changes nothing, and the sweep reads the
\* ledger again (while the retry loop has attempts left).
SweepWriteStep(c, s) == Running(c, "refresh", s, "write") /\ w'[c][s] # w[c][s]
CreatorWriteStep(c, s) ==
  /\ Running(c, "update", s, "write") /\ w'[c][s] # w[c][s]
  /\ w[c][s].etag = 0
C23_CreationRace ==
  [][ /\ \A c \in Calls, s \in Sites :
           CreatorWriteStep(c, s) =>
             /\ LedgerOf(s, c).etag # 0 =>
                  /\ store' = store
                  /\ w'[c][s].err \in {"conflict", "put"}
                  /\ w[c][s].attempts < retryAttempts => w'[c][s].pc = "read"
             /\ store' # store =>
                  /\ LedgerOf(s, c).etag = 0
                  /\ store'[s][call[c].user].Objects = {call[c].path}
                  /\ store'[s][call[c].user].MaxLimit = maxLimit
      /\ \A c, d \in Calls, s \in Sites :
           ( /\ c # d /\ SiteSucceeds(c, s)
             /\ call[d].kind = "update" /\ call[d].user = call[c].user
             /\ call[d].path # call[c].path
             /\ w[d][s].pc = "done" /\ w[d][s].err = "nil" )
           => {call[c].path, call[d].path} \subseteq store'[s][call[c].user].Objects ]_vars

\* Two Updates of a user without a ledger, on sites that do not fail: one
\* created the ledger, the other's PUT was refused and its second attempt
\* added its path; both returned nil and both sites hold both paths.
C23_Witness ==
  /\ ~faults /\ s3Clients = {1, 2}
  /\ \A c \in Calls :
       call[c].kind = "update" /\ call[c].phase = "returned" /\ call[c].ret = "nil"
  /\ \A s \in s3Clients :
       /\ store[s]["u1"].etag = 2 /\ store[s]["u1"].Objects = {a3, b3}
       /\ \E c \in Calls : w[c][s].attempts = 2

\* ---- C24: for a ledger that exists, an update attempt is rejected exactly
\* when the entries surviving eviction plus the new path exceed the capacity
\* the process is configured with (maxLimit), and the check of a site reports
\* exceeded exactly when those entries reach it, whatever capacity the ledger
\* itself carries.
C24_CapacityAuthority ==
  [][ \A c \in Calls, s \in Sites :
        /\ ( /\ UpdateAttemptStep(c, s) /\ ReadSucceeded(c, s)
             /\ LedgerOf(s, c).etag # 0
             /\ call[c].path \notin PostEviction(LedgerOf(s, c).Objects) )
           => ( Rejected(c, s) <=>
                  Cardinality(PostEviction(LedgerOf(s, c).Objects)) + 1 > maxLimit )
        /\ ( /\ Running(c, "check", s, "read") /\ w'[c][s] # w[c][s]
             /\ w'[c][s].rd = "ok" )
           => ( w'[c][s].err = "exceeded" <=>
                  Cardinality(PostEviction(LedgerOf(s, c).Objects)) >= maxLimit ) ]_vars

\* ---- C25: at an update attempt on an existing ledger, for a path that is
\* not stale and not among the entries surviving eviction, the attempt is
\* rejected exactly when a Check reading that same ledger reports exceeded;
\* stated of the multi-site engine and of the single-site handlers.
AgreementMulti ==
  \A c \in Calls, s \in Sites :
    ( /\ UpdateAttemptStep(c, s) /\ ReadSucceeded(c, s)
      /\ LedgerOf(s, c).etag # 0
      /\ ~IsStale(call[c].path)
      /\ call[c].path \notin PostEviction(LedgerOf(s, c).Objects) )
    => (Rejected(c, s) <=> CheckSiteResult("ok", LedgerOf(s, c)) = "exceeded")
AgreementSingle ==
  \A h \in Handlers :
    ( /\ HandlerAttemptStep(h) /\ HandlerReadSucceeded(h)
      /\ manifest[hd[h].user].exists
      /\ ~IsStale(hd[h].path)
      /\ hd[h].path \notin PostEviction(DOMAIN manifest[hd[h].user].Objects) )
    => (HandlerRejected(h) <=> HandlerCheckStatus("ok", manifest[hd[h].user]) = 403)
C25_CheckUpdateAgree == [][AgreementMulti /\ AgreementSingle]_vars

\* The part of C25 that is about updateLatestUserQuota and checkQuota (it holds).
AgreementMultiOnly == [][AgreementMulti]_vars

\* ---- C26: a notification whose first record carries an empty or missing
\* bucket name or object key is answered 200 by updateQuotaHandler, which
\* then takes no lock, reads nothing and writes nothing; one whose unescaped
\* key has fewer than three segments is answered 400 and likewise ends there;
\* notifications with the same first record are treated alike; and a ledger
\* is read or written for a notification only with a path of three segments
\* or more.
FirstRecordBlank(body) ==
  Len(body) > 0 /\ body[1].s3 /\ (body[1].bucket = "" \/ body[1].key = <<>>)
FirstRecordShort(body) ==
  /\ Len(body) > 0 /\ body[1].s3 /\ body[1].bucket # "" /\ body[1].key # <<>>
  /\ PathUnescape(body[1].key).ok
  /\ Len(Split(PathUnescape(body[1].key).path)) < 3
EndsUntouched(h, status) ==
  /\ hd'[h].pc = "done" /\ hd'[h].status = status
  /\ manifest' = manifest /\ locker' = locker /\ voicemails' = voicemails
CancelledStep(c, s) ==
  /\ ctx[c] = "done"
  /\ call[c].kind \in {"update", "refresh", "purge"}
  /\ Running(c, call[c].kind, s, w[c][s].pc)
  /\ w'[c][s] # w[c][s]
C27_CancellationStops ==
  [][ \A c \in Calls, s \in Sites :
        CancelledStep(c, s) =>
          /\ store' = store /\ data' = data
          /\ w'[c][s].pc = "done" /\ w'[c][s].err # "nil"
          /\ w'[c][s].attempts = w[c][s].attempts ]_vars

\* What does hold after a cancellation: no step of a cancelled Update or
\* Refresh changes a ledger.
CancelledWritesNoLedger ==
  [][ \A c \in Calls, s \in Sites :
        (CancelledStep(c, s) /\ call[c].kind # "purge") => store' = store ]_vars

\* ---- C28: in the single-site build, for every user at most one handler is
\* between lock(user) and unlock(user), and the lock table names it; a handler
\* waiting in lock(user) is kept waiting only by a handler that holds the lock
\* of that same user; a handler that is not between lock and unlock holds no
\* lock; and every handler that holds a lock gives it up.
Holding(h) == hd[h].pc \in {"read", "write"}
MutualExclusion ==
  \A u \in UserSet :
    /\ Cardinality({h \in Handlers : Holding(h) /\ hd[h].user = u}) <= 1
    /\ \A h \in Handlers : locker[u] = h <=> (Holding(h) /\ hd[h].user = u)
    /\ locker[u] = "" <=> ~\E h \in Handlers : Holding(h) /\ hd[h].user = u
BlockedOnlyBySameUser ==
  \A h \in Handlers :
    (variant = "single" /\ hd[h].pc = "lock") =>
      \/ CanLock(locker[hd[h].user])
      \/ \E g \in Handlers \ {h} : Holding(g) /\ hd[g].user = hd[h].user
C28_PerUserLock ==
  /\ [](MutualExclusion /\ BlockedOnlyBySameUser)
  /\ \A h \in Handlers : Holding(h) ~> ~Holding(h)

\* h1 is about to PUT u1's ledger under u1's lock while h2 waits in lock("u1").
C28_Witness ==
  /\ hd["h1"].pc = "write" /\ hd["h1"].user = "u1" /\ locker["u1"] = "h1"
  /\ hd["h2"].pc = "lock" /\ hd["h2"].user = "u1"

====
